---- MODULE Spec2Model ----
(***************************************************************************)
(* Knowledge-graph ingestion and retrieval of kg_app.                       *)
(*                                                                         *)
(* Ingestion: FileProcessingService.process_uploaded_file runs the          *)
(* compliance filter, writes the document vector and then stores the paper  *)
(* node, the entity nodes, the 'contains' edges and the relation edges in   *)
(* the graph store (ArangoDBService).  Every `await` of the code is one     *)
(* step of a call, so concurrent calls interleave at those points.          *)
(*                                                                         *)
(* Retrieval: QueryProcessingService._search_relevant_papers merges the     *)
(* result lists of the user's namespace and of the public namespace.        *)
(***************************************************************************)
EXTENDS Integers, Sequences, FiniteSets, TLC

VARIABLES
    db,         \* graph_db.db is not None: the graph store connection is open
    calls,      \* per ingestion call: the locals of process_uploaded_file / _store_in_graph_db
    nodes,      \* graph store: documents of the nodes_<type> collections
    edges,      \* graph store: documents of the edges_<type> collections
    vectors,    \* vector store: MockVectorService.vectors
    search,     \* one run of _search_relevant_papers
    hashseed,   \* the interpreter's string hash, fixed when the process starts
    cache,      \* the Redis cache: entries by key
    query,      \* one run of process_query
    retrieval   \* one run of _query_knowledge_graph

vars == <<db, calls, nodes, edges, vectors, search, hashseed, cache, query, retrieval>>

\* The state of the query pipeline, which ingestion and vector search leave alone.
queryVars == <<hashseed, cache, query, retrieval>>

\* ---------------------------------------------------------------- bounds

MaxEntities == 2
MaxRelations == 2
MaxResults == 2
MaxFailures == 1
MaxQueries == 2
MaxEdges == 3

Calls == {1, 2}
Users == {"alice", "bob"}

Range(s) == {s[k] : k \in 1..Len(s)}

RECURSIVE SeqsUpTo(_, _)
SeqsUpTo(S, n) ==
    IF n = 0 THEN {<<>>}
    ELSE LET shorter == SeqsUpTo(S, n - 1)
         IN  shorter \cup {Append(s, x) : s \in {t \in shorter : Len(t) = n - 1}, x \in S}

\* ---------------------------------------------------------------- models/paper.py

EntityTypes == {"person", "organization", "location", "concept", "methodology"}

Entity(text, type) == [text |-> text, type |-> type]

Relation(source_entity, target_entity, relationship) ==
    [source_entity |-> source_entity, target_entity |-> target_entity,
     relationship |-> relationship]

\* ---------------------------------------------------------------- services/compliance.py

public_entity_types == {"concept", "methodology", "organization"}

\* The mutant of private_entity_types: a type listed on both sides.
private_entity_types_overlap == {"person", "location", "organization"}

private_entity_types == {"person", "location"}

sensitive_relations == {"authored_by", "located_at", "contact_info"}

IsPublicEntity(entity) == entity.type \in public_entity_types

IsPrivateEntity(entity) == entity.type \in private_entity_types

\* The mutant of IsPublicRelation: the relationship name is not looked at.
IsPublicRelationTypesOnly(relation) ==
    /\ relation.source_entity.type \in public_entity_types
    /\ relation.target_entity.type \in public_entity_types

IsPublicRelation(relation) ==
    /\ relation.source_entity.type \in public_entity_types
    /\ relation.target_entity.type \in public_entity_types
    /\ relation.relationship \notin sensitive_relations

IsPrivateRelation(relation) ==
    \/ relation.source_entity.type \in private_entity_types
    \/ relation.target_entity.type \in private_entity_types
    \/ relation.relationship \in sensitive_relations

\* The mutant of filter_content: the private lists are filled for a public
\* document too.
filter_content_split(entities, relations, is_public) ==
    [public_entities   |-> SelectSeq(entities, IsPublicEntity),
     public_relations  |-> SelectSeq(relations, IsPublicRelation),
     private_entities  |-> SelectSeq(entities, IsPrivateEntity),
     private_relations |-> SelectSeq(relations, IsPrivateRelation)]

filter_content(entities, relations, is_public) ==
    IF is_public
    THEN [public_entities   |-> SelectSeq(entities, IsPublicEntity),
          public_relations  |-> SelectSeq(relations, IsPublicRelation),
          private_entities  |-> <<>>,
          private_relations |-> <<>>]
    ELSE [public_entities   |-> SelectSeq(entities, IsPublicEntity),
          public_relations  |-> SelectSeq(relations, IsPublicRelation),
          private_entities  |-> SelectSeq(entities, IsPrivateEntity),
          private_relations |-> SelectSeq(relations, IsPrivateRelation)]

\* ---------------------------------------------------------------- identity and keys (services/file_processing.py)

\* uuid.uuid4(): a fresh 128-bit random token.  Draws never repeat; the n-th
\* draw of call c is the token (c, n).
uuid4(c, n) == [call |-> c, draw |-> n]

_generate_arango_key(c, n) == uuid4(c, n)

_build_safe_document_id(collection_name, c, n) ==
    [collection |-> collection_name, key |-> _generate_arango_key(c, n)]

\* id.split('/')[-1]
KeyPart(id) == id.key

\* "edges/" + md5(f"{source_part}_{relationship}_{target_part}"): the digest
\* is a function of the triple and distinct triples give distinct digests.
_build_safe_edge_id(source_key, target_key, relationship) ==
    [collection |-> "edges",
     key |-> <<KeyPart(source_key), relationship, KeyPart(target_key)>>]

\* ---------------------------------------------------------------- services/graph_db

NoOwner == "-"

Node(id, label, type, is_public, owner_id, original_text) ==
    [id |-> id, label |-> label, type |-> type, is_public |-> is_public,
     owner_id |-> owner_id, original_text |-> original_text]

Edge(id, source_id, target_id, label, type, is_public, owner_id) ==
    [id |-> id, source_id |-> source_id, target_id |-> target_id, label |-> label,
     type |-> type, is_public |-> is_public, owner_id |-> owner_id]

\* The document upsert_node inserts: collection nodes_<type>, _key the last
\* part of node.id; the store's _id of the document is <collection>/<_key>.
NodeDocument(node) ==
    [id |-> [collection |-> "nodes_" \o node.type, key |-> KeyPart(node.id)],
     label |-> node.label, is_public |-> node.is_public,
     owner_id |-> node.owner_id, original_text |-> node.original_text]

\* The document upsert_edge inserts: collection edges_<type>, _from and _to
\* exactly the source_id and target_id the caller passed.
EdgeDocument(edge) ==
    [id |-> [collection |-> "edges_" \o edge.type, key |-> KeyPart(edge.id)],
     from |-> edge.source_id, to |-> edge.target_id, label |-> edge.label,
     is_public |-> edge.is_public, owner_id |-> edge.owner_id]

\* The mutant of InsertOverwrite: an insert that never replaces; a document
\* whose _key is taken is stored next to the old one under a key of its own.
InsertKeepBoth(collection, document) ==
    IF \E d \in collection : d.id = document.id
    THEN collection \cup
         {[document EXCEPT !.id = [collection |-> document.id.collection,
                                   key |-> <<document.id.key, Cardinality(collection)>>]]}
    ELSE collection \cup {document}

\* collection.insert(document, overwrite=True)
InsertOverwrite(collection, document) ==
    {d \in collection : d.id # document.id} \cup {document}

\* upsert_node: True and the document stored, or ArangoError caught and False.
upsert_node(store, node, ok) ==
    IF ok THEN InsertOverwrite(store, NodeDocument(node)) ELSE store

upsert_edge(store, edge, ok) ==
    IF ok THEN InsertOverwrite(store, EdgeDocument(edge)) ELSE store

\* ---------------------------------------------------------------- services/vector_db/mock_vector_service.py

\* self.vectors[f"{namespace}_{vector_id}"] = {...}
upsert_embeddings(store, vector_id, metadata, namespace) ==
    LET full_id == <<namespace, vector_id>>
    IN  {v \in store : v.full_id # full_id} \cup
        {[full_id |-> full_id, id |-> vector_id, namespace |-> namespace,
          metadata |-> metadata]}

\* ---------------------------------------------------------------- services/file_processing.py

NoKey == uuid4(0, 0)
NoId == [collection |-> "", key |-> NoKey]
NoFilter == [public_entities |-> <<>>, public_relations |-> <<>>,
             private_entities |-> <<>>, private_relations |-> <<>>]
NoResult == [status |-> "none", doc_id |-> NoKey,
             public_entities_count |-> 0, public_relations_count |-> 0,
             private_entities_count |-> 0, private_relations_count |-> 0]

\* The locals of one call of process_uploaded_file and of the
\* _store_in_graph_db it runs.  draws counts the call's uuid4 draws; log
\* lists, in order, the upserts the call issued to the graph store (with the
\* store's answer) and the warnings it logged.
IdleCall ==
    [pc |-> "idle", user_id |-> "", is_public |-> FALSE,
     entities |-> <<>>, relations |-> <<>>, doc_id |-> NoKey,
     filtered |-> NoFilter, paper_node_id |-> NoId, entity_node_id |-> NoId,
     entity_key_map |-> <<>>, i |-> 1, draws |-> 0, log |-> <<>>,
     result |-> NoResult]

LogUpsert(kind, private, index, id, source_id, target_id, ok) ==
    [op |-> "upsert", kind |-> kind, private |-> private, index |-> index,
     id |-> id, source_id |-> source_id, target_id |-> target_id, ok |-> ok]

LogWarning(index) ==
    [op |-> "warning", kind |-> "relation", private |-> FALSE, index |-> index,
     id |-> NoId, source_id |-> NoId, target_id |-> NoId, ok |-> FALSE]

vector_metadata(call, namespace) ==
    [user_id |-> call.user_id, doc_id |-> call.doc_id,
     is_public |-> call.is_public, namespace |-> namespace]

\* The result dict of a completed call (lines 153-164).
CompletedResult(call) ==
    [status |-> "completed", doc_id |-> call.doc_id,
     public_entities_count |-> Len(call.filtered.public_entities),
     public_relations_count |-> Len(call.filtered.public_relations),
     private_entities_count |-> Len(call.filtered.private_entities),
     private_relations_count |-> Len(call.filtered.private_relations)]

\* The result dict of the except branch (lines 166-175).
FailedResult(doc_id) == [NoResult EXCEPT !.status = "failed", !.doc_id = doc_id]

\* The documents a call may be handed: the extractor is external, so its
\* entities and relations are any lists over the given universes.
Documents(users, publicity, entity_universe, relation_universe) ==
    [user_id : users, is_public : publicity,
     entities : SeqsUpTo(entity_universe, MaxEntities),
     relations : SeqsUpTo(relation_universe, MaxRelations)]

\* The answers the graph store may give to the next upsert of call c: it
\* stores the document, or (for at most `failures` upserts of a call) raises
\* ArangoError.
FailedUpserts(c) == Cardinality({k \in 1..Len(calls[c].log) :
                                    calls[c].log[k].op = "upsert" /\ ~calls[c].log[k].ok})

Outcomes(c, failures) == IF FailedUpserts(c) < failures THEN BOOLEAN ELSE {TRUE}

\* Lines 48-90: the connection check, the document id and the extraction.
\* A failed connect raises ConnectionError, which the except branch turns
\* into a 'failed' result.
Upload(c, failures, documents) ==
    /\ calls[c].pc = "idle"
    /\ \E connected \in (IF db \/ failures = 0 THEN {TRUE} ELSE BOOLEAN),
          document \in documents :
          /\ db' = connected
          /\ calls' = [calls EXCEPT ![c] =
                IF connected
                THEN [@ EXCEPT !.pc = "extracted", !.user_id = document.user_id,
                               !.is_public = document.is_public,
                               !.entities = document.entities,
                               !.relations = document.relations,
                               !.doc_id = uuid4(c, 1), !.draws = 1]
                ELSE [@ EXCEPT !.pc = "done", !.user_id = document.user_id,
                               !.is_public = document.is_public,
                               !.result = FailedResult(NoKey)]]
    /\ UNCHANGED <<nodes, edges, vectors, search, queryVars>>

\* Lines 92-118: the compliance filter, then the public vector of a public
\* document.
ComplianceStep(c) ==
    /\ calls[c].pc = "extracted"
    /\ LET call == calls[c]
           namespace == "public"
       IN  /\ calls' = [calls EXCEPT ![c] =
                  [@ EXCEPT !.pc = "vector",
                            !.filtered = filter_content(call.entities, call.relations,
                                                        call.is_public)]]
           /\ vectors' = IF call.is_public
                         THEN upsert_embeddings(vectors, <<call.doc_id>>,
                                                vector_metadata(call, namespace), namespace)
                         ELSE vectors
    /\ UNCHANGED <<db, nodes, edges, search, queryVars>>

\* Lines 120-127: the vector of the user's own namespace.
UpsertUserVector(c) ==
    /\ calls[c].pc = "vector"
    /\ LET call == calls[c]
           namespace == call.user_id
       IN  vectors' = upsert_embeddings(vectors, <<call.user_id, call.doc_id>>,
                                        vector_metadata(call, namespace), namespace)
    /\ calls' = [calls EXCEPT ![c].pc = "paper"]
    /\ UNCHANGED <<db, nodes, edges, search, queryVars>>

\* Lines 130-142: PaperCreate(...) validates the metadata the caller passed
\* (title of 1 to 500 characters, DOI pattern, ...).  On metadata it rejects,
\* the ValidationError reaches the except branch of lines 166-175.
PaperCreateInvalid(c) ==
    /\ calls[c].pc = "paper"
    /\ calls' = [calls EXCEPT ![c] =
          [@ EXCEPT !.pc = "done", !.result = FailedResult(calls[c].doc_id)]]
    /\ UNCHANGED <<db, nodes, edges, vectors, search, queryVars>>

\* ---------------------------------------------------------------- _store_in_graph_db

\* The loop the writer enters next: public entities (282), private entities
\* (319), relations (362).
\* The mutant of AfterPublicEntities: the relation loop runs right after the
\* public entities.
RelationsAfterPublicEntities(filtered) == "relations"

AfterPublicEntities(filtered) ==
    IF Len(filtered.private_entities) > 0 THEN "private_node" ELSE "relations"

AfterPaperNode(filtered) ==
    IF Len(filtered.public_entities) > 0 THEN "public_node"
    ELSE AfterPublicEntities(filtered)

\* The mutant of AfterUpsert: a failed upsert ends the call.
AfterUpsertAbort(ok, next_pc) == IF ok THEN next_pc ELSE "done"

\* `await self.graph_db.upsert_node(...)` / `upsert_edge(...)`: the bool the
\* store returns is not looked at, the writer goes on either way.
AfterUpsert(ok, next_pc) == next_pc

\* entity_key_map is a local of the call (line 279).
\* The mutant of EntityKeyMapOf: one map on the service, shared by the calls.
SharedEntityKeyMap(c) == calls[1].entity_key_map \o calls[2].entity_key_map

EntityKeyMapOf(c) == calls[c].entity_key_map

\* Lines 372-376 and 379-383: the first item of the map, in insertion order,
\* with this text and this visibility.
FindEntity(entity_key_map, text, is_private) ==
    LET hits == {k \in 1..Len(entity_key_map) :
                    /\ entity_key_map[k].text = text
                    /\ entity_key_map[k].priv = is_private}
    IN  IF hits = {} THEN [found |-> FALSE, node_id |-> NoId]
        ELSE [found |-> TRUE,
              node_id |-> entity_key_map[CHOOSE k \in hits : \A h \in hits : k <= h].node_id]

\* Line 361.
all_relations(call) == call.filtered.public_relations \o call.filtered.private_relations

\* Line 363: `relation in private_relations`.
is_private(call, relation) == \E k \in 1..Len(call.filtered.private_relations) :
                                 call.filtered.private_relations[k] = relation

\* The mutant of AfterSkip: `break` in place of `continue`.
AfterSkipBreak(i, n) == n + 1

\* Line 389: `continue` with the next relation.
AfterSkip(i, n) == i + 1

\* Lines 243-279: the paper node.
UpsertPaperNode(c, failures) ==
    /\ calls[c].pc = "paper"
    /\ \E ok \in Outcomes(c, failures) :
          LET call == calls[c]
              paper_node_id == _build_safe_document_id("papers", c, call.draws + 1)
              paper_node == Node(paper_node_id, "title", "paper", call.is_public,
                                 call.user_id, "")
          IN  /\ nodes' = upsert_node(nodes, paper_node, ok)
              /\ calls' = [calls EXCEPT ![c] =
                    [@ EXCEPT !.pc = AfterUpsert(ok, AfterPaperNode(call.filtered)),
                              !.paper_node_id = paper_node_id,
                              !.draws = call.draws + 1,
                              !.entity_key_map = <<>>,
                              !.i = 1,
                              !.log = Append(@, LogUpsert("paper", FALSE, 0, paper_node_id, NoId, NoId, ok))]]
    /\ UNCHANGED <<db, edges, vectors, search, queryVars>>

\* Lines 283-299 (public) and 320-339 (private): one entity node and its
\* entry in entity_key_map.
UpsertEntityNode(c, private, failures) ==
    /\ calls[c].pc = (IF private THEN "private_node" ELSE "public_node")
    /\ \E ok \in Outcomes(c, failures) :
          LET call == calls[c]
              list == IF private THEN call.filtered.private_entities
                      ELSE call.filtered.public_entities
              entity == list[call.i]
              entity_node_id == _build_safe_document_id("entities", c, call.draws + 1)
              entity_node == Node(entity_node_id, entity.text, entity.type, ~private,
                                  IF private THEN call.user_id ELSE NoOwner, entity.text)
          IN  /\ nodes' = upsert_node(nodes, entity_node, ok)
              /\ calls' = [calls EXCEPT ![c] =
                    [@ EXCEPT !.pc = AfterUpsert(ok, IF private THEN "private_edge"
                                                     ELSE "public_edge"),
                              !.entity_node_id = entity_node_id,
                              !.draws = call.draws + 1,
                              !.entity_key_map =
                                  Append(@, [text |-> entity.text, priv |-> private,
                                             idx |-> call.i - 1, node_id |-> entity_node_id]),
                              !.log = Append(@, LogUpsert("entity", private, call.i,
                                                          entity_node_id, NoId, NoId, ok))]]
    /\ UNCHANGED <<db, edges, vectors, search, queryVars>>

\* Lines 301-316 (public) and 341-358 (private): the 'contains' edge from the
\* paper to the entity, then the next entity or the next loop.
UpsertContainsEdge(c, private, failures) ==
    /\ calls[c].pc = (IF private THEN "private_edge" ELSE "public_edge")
    /\ \E ok \in Outcomes(c, failures) :
          LET call == calls[c]
              list == IF private THEN call.filtered.private_entities
                      ELSE call.filtered.public_entities
              edge_id == _build_safe_edge_id(call.paper_node_id, call.entity_node_id,
                                             "contains")
              relation == Edge(edge_id, call.paper_node_id, call.entity_node_id,
                               "contains", "contains", ~private,
                               IF private THEN call.user_id ELSE NoOwner)
              more == call.i < Len(list)
              next_pc == IF more THEN (IF private THEN "private_node" ELSE "public_node")
                         ELSE IF private THEN "relations"
                         ELSE AfterPublicEntities(call.filtered)
          IN  /\ edges' = upsert_edge(edges, relation, ok)
              /\ calls' = [calls EXCEPT ![c] =
                    [@ EXCEPT !.pc = AfterUpsert(ok, next_pc),
                              !.i = IF more THEN call.i + 1 ELSE 1,
                              !.log = Append(@, LogUpsert("contains", private, call.i, edge_id,
                                                          call.paper_node_id,
                                                          call.entity_node_id, ok))]]
    /\ UNCHANGED <<db, nodes, vectors, search, queryVars>>

UpsertPublicEntityNode(c, failures) == UpsertEntityNode(c, FALSE, failures)
UpsertPublicContainsEdge(c, failures) == UpsertContainsEdge(c, FALSE, failures)
UpsertPrivateEntityNode(c, failures) == UpsertEntityNode(c, TRUE, failures)
UpsertPrivateContainsEdge(c, failures) == UpsertContainsEdge(c, TRUE, failures)

\* Lines 362-383: the endpoints of relation i of all_relations.
Endpoints(c) ==
    LET call == calls[c]
        relation == all_relations(call)[call.i]
        priv == is_private(call, relation)
    IN  [relation |-> relation, is_private |-> priv,
         source |-> FindEntity(EntityKeyMapOf(c), relation.source_entity.text, priv),
         target |-> FindEntity(EntityKeyMapOf(c), relation.target_entity.text, priv)]

\* Lines 385-389: an endpoint is missing; warn and go on.
SkipRelation(c) ==
    /\ calls[c].pc = "relations"
    /\ calls[c].i <= Len(all_relations(calls[c]))
    /\ LET e == Endpoints(c) IN ~e.source.found \/ ~e.target.found
    /\ calls' = [calls EXCEPT ![c] =
          [@ EXCEPT !.i = AfterSkip(@, Len(all_relations(calls[c]))),
                    !.log = Append(@, LogWarning(calls[c].i))]]
    /\ UNCHANGED <<db, nodes, edges, vectors, search, queryVars>>

\* Lines 391-408: the relation edge between the two entity nodes.
UpsertRelationEdge(c, failures) ==
    /\ calls[c].pc = "relations"
    /\ calls[c].i <= Len(all_relations(calls[c]))
    /\ LET e == Endpoints(c) IN e.source.found /\ e.target.found
    /\ \E ok \in Outcomes(c, failures) :
          LET call == calls[c]
              e == Endpoints(c)
              source_id == e.source.node_id
              target_id == e.target.node_id
              edge_id == _build_safe_edge_id(source_id, target_id, e.relation.relationship)
              relation_edge == Edge(edge_id, source_id, target_id,
                                    e.relation.relationship, e.relation.relationship,
                                    ~e.is_private, NoOwner)
          IN  /\ edges' = upsert_edge(edges, relation_edge, ok)
              /\ calls' = [calls EXCEPT ![c] =
                    [@ EXCEPT !.pc = AfterUpsert(ok, "relations"),
                              !.i = call.i + 1,
                              !.log = Append(@, LogUpsert("relation", e.is_private, call.i,
                                                          edge_id, source_id, target_id, ok))]]
    /\ UNCHANGED <<db, nodes, vectors, search, queryVars>>

\* Lines 410-412 and 150-164: the writer returns and the call reports
\* 'completed' with the lengths of the four filtered lists.
Return(c) ==
    /\ calls[c].pc = "relations"
    /\ calls[c].i > Len(all_relations(calls[c]))
    /\ calls' = [calls EXCEPT ![c] =
          [@ EXCEPT !.pc = "done", !.result = CompletedResult(calls[c])]]
    /\ UNCHANGED <<db, nodes, edges, vectors, search, queryVars>>

\* ---------------------------------------------------------------- services/query_processing.py

NoDocId == ""
DocIds == {"d1", "d2", NoDocId}
Scores == {1, 2}
ResultUniverse == [doc_id : DocIds, score : Scores]
QueryScope == {"personal", "shared", "public", "cross_domain"}
TopKValues == {1, 10}

IdleSearch == [pc |-> "idle", scope |-> "personal", user_id |-> "", top_k |-> 0,
               namespaces |-> <<>>,
               user_results |-> <<>>, public_results |-> <<>>, merged |-> <<>>]

\* sorted(results, key=score, reverse=True): stable, so results of equal
\* score keep their order.
RECURSIVE InsertByScore(_, _)
InsertByScore(x, sorted) ==
    IF sorted = <<>> THEN <<x>>
    ELSE IF Head(sorted).score <= x.score THEN <<x>> \o sorted
    ELSE <<Head(sorted)>> \o InsertByScore(x, Tail(sorted))

\* The mutant of SortedByScore: the results are left in the order the
\* namespaces answered.
Unsorted(results) == results

RECURSIVE SortedByScore(_)
SortedByScore(results) ==
    IF results = <<>> THEN <<>>
    ELSE InsertByScore(Head(results), SortedByScore(Tail(results)))

\* Lines 221-229: the first result of each doc_id, results without a doc_id
\* dropped.
RECURSIVE Unique(_, _)
Unique(results, seen_ids) ==
    IF results = <<>> THEN <<>>
    ELSE LET result == Head(results)
             doc_id == result.doc_id
         IN  IF doc_id # NoDocId /\ doc_id \notin seen_ids
             THEN <<result>> \o Unique(Tail(results), seen_ids \cup {doc_id})
             ELSE Unique(Tail(results), seen_ids)

\* unique_results[:top_k]
Truncate(results, top_k) ==
    SubSeq(results, 1, IF Len(results) < top_k THEN Len(results) ELSE top_k)

\* The mutant of SearchesPublic: the public namespace is searched for every scope.
SearchesPublicAlways(scope) == TRUE

SearchesPublic(scope) == scope \in {"shared", "public", "cross_domain"}

\* Lines 192-234, given what the two namespaces answered.
_search_relevant_papers(user_results, public_results, scope, top_k) ==
    LET results == user_results \o (IF SearchesPublic(scope) THEN public_results ELSE <<>>)
    IN  Truncate(Unique(SortedByScore(results), {}), top_k)

\* Lines 195-202: the search of the user's namespace; for scope personal the
\* merge follows at once.
SearchUserNamespace ==
    /\ search.pc = "idle"
    /\ \E scope \in QueryScope, user_id \in Users, top_k \in TopKValues,
          user_results \in SeqsUpTo(ResultUniverse, MaxResults) :
          search' = [search EXCEPT
              !.pc = IF SearchesPublic(scope) THEN "public" ELSE "done",
              !.scope = scope, !.user_id = user_id, !.top_k = top_k,
              !.namespaces = <<user_id>>,
              !.user_results = user_results,
              !.merged = IF SearchesPublic(scope) THEN <<>>
                         ELSE _search_relevant_papers(user_results, <<>>, scope, top_k)]
    /\ UNCHANGED <<db, calls, nodes, edges, vectors, queryVars>>

\* Lines 208-234: the search of the public namespace and the merge.
SearchPublicNamespace ==
    /\ search.pc = "public"
    /\ \E public_results \in SeqsUpTo(ResultUniverse, MaxResults) :
          search' = [search EXCEPT
              !.pc = "done",
              !.namespaces = Append(@, "public"),
              !.public_results = public_results,
              !.merged = _search_relevant_papers(search.user_results, public_results,
                                                 search.scope, search.top_k)]
    /\ UNCHANGED <<db, calls, nodes, edges, vectors, queryVars>>

\* ---------------------------------------------------------------- services/vector_db/mock_vector_service.py (search)

\* The orders in which a dict of these values can be iterated.
RECURSIVE Orders(_)
Orders(S) ==
    IF S = {} THEN {<<>>}
    ELSE UNION {{<<x>> \o rest : rest \in Orders(S \ {x})} : x \in S}

Min(a, b) == IF a < b THEN a ELSE b

\* doc_id = str(uuid.uuid4())
DocIdText(doc_id) == ToString(doc_id)

\* Lines 75-84: result i (from 0) of the search, score 0.9 - 0.1 i in tenths.
SearchResult(vector_data, i) ==
    [doc_id |-> DocIdText(vector_data.metadata.doc_id), score |-> 9 - i,
     user_id |-> vector_data.metadata.user_id,
     is_public |-> vector_data.metadata.is_public,
     namespace |-> vector_data.metadata.namespace]

\* Lines 86-94: the results made up when the namespace holds no vector; their
\* metadata has no doc_id.
MockResult(namespace, i) ==
    [doc_id |-> NoDocId, score |-> 9 - i, user_id |-> "", is_public |-> TRUE,
     namespace |-> namespace]

\* MockVectorService.search: the vectors whose namespace is the one asked
\* for, in the order of the dict, the first top_k of them.  The filter
\* {"metadata.is_public": [True, False]} names no key of the metadata and
\* removes nothing.
vector_search(store, namespace, top_k) ==
    LET filtered_vectors == {v \in store : v.namespace = namespace}
    IN  IF filtered_vectors = {}
        THEN {[i \in 1..Min(top_k, 5) |-> MockResult(namespace, i - 1)]}
        ELSE {[i \in 1..Min(top_k, Len(order)) |-> SearchResult(order[i], i - 1)] :
                 order \in Orders(filtered_vectors)}

\* Lines 195-202 against the vector store.
SearchUserVectors(users) ==
    /\ search.pc = "idle"
    /\ \E scope \in QueryScope, user_id \in users, top_k \in TopKValues :
          \E user_results \in vector_search(vectors, user_id, top_k) :
              search' = [search EXCEPT
                  !.pc = IF SearchesPublic(scope) THEN "public" ELSE "done",
                  !.scope = scope, !.user_id = user_id, !.top_k = top_k,
                  !.namespaces = <<user_id>>,
                  !.user_results = user_results,
                  !.merged = IF SearchesPublic(scope) THEN <<>>
                             ELSE _search_relevant_papers(user_results, <<>>, scope, top_k)]
    /\ UNCHANGED <<db, calls, nodes, edges, vectors, queryVars>>

\* Lines 208-234 against the vector store.
SearchPublicVectors ==
    /\ search.pc = "public"
    /\ \E public_results \in vector_search(vectors, "public", search.top_k) :
          search' = [search EXCEPT
              !.pc = "done",
              !.namespaces = Append(@, "public"),
              !.public_results = public_results,
              !.merged = _search_relevant_papers(search.user_results, public_results,
                                                 search.scope, search.top_k)]
    /\ UNCHANGED <<db, calls, nodes, edges, vectors, queryVars>>

\* ---------------------------------------------------------------- services/graph_db/arangodb.py (reads)

\* A set as a list, in the order the store happens to answer.
RECURSIVE SetToSeq(_)
SetToSeq(S) ==
    IF S = {} THEN <<>>
    ELSE LET x == CHOOSE y \in S : TRUE IN <<x>> \o SetToSeq(S \ {x})

\* The store's _id of a document, as text: <collection>/<_key>.
IdText(id) == id.collection \o "/" \o ToString(id.key)

\* AQL LOWER().
Lower(text) == IF text = "Helix" THEN "helix" ELSE text

\* The answer of a store call: the rows, ArangoError (which the service
\* methods catch), or an exception of another class (which they do not).
StoreOutcomes(failed) ==
    IF failed < MaxFailures THEN {"ok", "ArangoError", "Exception"} ELSE {"ok"}

\* query_nodes(properties={"original_text": text}, limit): in every nodes_*
\* collection the documents with LOWER(doc.original_text) == LOWER(text),
\* LIMIT limit of them per collection; which ones is the store's choice.
query_nodes(store, original_text, limit) ==
    LET matches == {n \in store : Lower(n.original_text) = Lower(original_text)}
        InCollection(S, c) == {n \in S : n.id.collection = c}
        Least(a, b) == IF a < b THEN a ELSE b
    IN  {S \in SUBSET matches :
            \A c \in {n.id.collection : n \in matches} :
                Cardinality(InCollection(S, c)) =
                    Least(limit, Cardinality(InCollection(matches, c)))}

\* The edges at a vertex, in either orientation (direction "any").
Incident(edge_store, vertex_id) ==
    {d \in edge_store : d.from = vertex_id \/ d.to = vertex_id}

OtherEnd(d, vertex_id) == IF d.from = vertex_id THEN d.to ELSE d.from

\* FOR vertex, edge, path IN min..max ANY start GRAPH ...: the paths of
\* exactly `depth` edges from the start vertex, no edge twice on a path;
\* each path gives one row, its last vertex and its last edge.
RECURSIVE PathsOfDepth(_, _, _)
PathsOfDepth(edge_store, start_node_id, depth) ==
    IF depth = 1
    THEN {[vertex |-> OtherEnd(d, start_node_id), edge |-> d, used |-> {d.id}] :
             d \in Incident(edge_store, start_node_id)}
    ELSE UNION {{[vertex |-> OtherEnd(d, p.vertex), edge |-> d,
                  used |-> p.used \cup {d.id}] :
                    d \in {x \in Incident(edge_store, p.vertex) : x.id \notin p.used}} :
                 p \in PathsOfDepth(edge_store, start_node_id, depth - 1)}

\* traverse(start_node_id, min_depth, max_depth, direction="any"): the
\* vertices and the edges of the rows, one of each per path.  The stores
\* modelled hold every vertex their edges name.
traverse(node_store, edge_store, start_node_id, min_depth, max_depth) ==
    LET rows == SetToSeq(UNION {PathsOfDepth(edge_store, start_node_id, depth) :
                                   depth \in min_depth..max_depth})
    IN  [nodes |-> [k \in 1..Len(rows) |->
                       CHOOSE n \in node_store : n.id = rows[k].vertex],
         edges |-> [k \in 1..Len(rows) |-> rows[k].edge]]

EmptyGraphQueryResult == [nodes |-> <<>>, edges |-> <<>>]

\* get_nodes_by_ids: DOCUMENT(collection, key) for every id.
get_nodes_by_ids(node_store, node_ids) == {n \in node_store : n.id \in node_ids}

\* ---------------------------------------------------------------- graph retrieval (services/query_processing.py)

\* Line 282: the seed entities are a fixed list.
entities_to_search == <<"helix">>

\* The mutant of TRAVERSAL_DEPTH: max_depth left at the default of traverse.
DefaultMaxDepth == 3

\* Line 659.
TRAVERSAL_DEPTH == 2

\* The strings _query_knowledge_graph returns in place of triples.
ServiceUnavailable == "Knowledge Graph service is unavailable."
NoGraphData == "No graph data found for the relevant entities."
ErrorRetrieving == "Error retrieving knowledge graph information."
NotReturned == "(not returned)"

IdleRetrieval ==
    [pc |-> "idle", seeds |-> <<>>, i |-> 1,
     full_graph_context |-> EmptyGraphQueryResult, traversed |-> <<>>,
     unique_nodes |-> <<>>, unique_edges |-> <<>>, formatted_triples |-> <<>>,
     graph_context |-> NotReturned, failed |-> 0]

\* The mutant of UniqueById: the merged lists are rendered as they are.
KeepAll(items, seen) == items

\* Lines 566-567: list({x.id: x for x in items}.values()), one item per id at
\* the place of its first occurrence.
RECURSIVE UniqueById(_, _)
UniqueById(items, seen) ==
    IF items = <<>> THEN <<>>
    ELSE IF Head(items).id \in seen THEN UniqueById(Tail(items), seen)
    ELSE <<Head(items)>> \o UniqueById(Tail(items), seen \cup {Head(items).id})

\* Lines 598-616: label, else properties.original_text, else the full id.
human_readable_text(node) ==
    IF node.label # "" THEN node.label
    ELSE IF node.original_text # "" THEN node.original_text
    ELSE IdText(node.id)

\* Lines 629-630: label_map.get(id, id), label_map holding the resolved nodes.
LabelOf(resolved_nodes, id) ==
    IF \E n \in resolved_nodes : n.id = id
    THEN human_readable_text(CHOOSE n \in resolved_nodes : n.id = id)
    ELSE IdText(id)

\* Line 633.
FormatTriple(source_label, label, target_label) ==
    "(\"" \o source_label \o "\") --[" \o label \o "]--> (\"" \o target_label \o "\")"

\* "\n".join(lines)
RECURSIVE Join(_)
Join(lines) ==
    IF lines = <<>> THEN ""
    ELSE IF Len(lines) = 1 THEN lines[1]
    ELSE lines[1] \o "\n" \o Join(Tail(lines))

\* Lines 555-645, given the nodes get_nodes_by_ids answered.
_resolve_and_format_triples(result, resolved_nodes) ==
    LET unique_nodes == UniqueById(result.nodes, {})
        unique_edges == UniqueById(result.edges, {})
        formatted_triples ==
            [k \in 1..Len(unique_edges) |->
                FormatTriple(LabelOf(resolved_nodes, unique_edges[k].from),
                             unique_edges[k].label,
                             LabelOf(resolved_nodes, unique_edges[k].to))]
    IN  [unique_nodes |-> unique_nodes, unique_edges |-> unique_edges,
         formatted_triples |-> formatted_triples,
         graph_context |-> Join(formatted_triples)]

\* _query_knowledge_graph returns this string.
ReturnContext(r, graph_context) ==
    [r EXCEPT !.pc = "done", !.graph_context = graph_context]

\* The string the stage hands on when a store call ends with this outcome:
\* an exception the service method does not catch reaches the except of
\* lines 315-317.
Failed(r, outcome) == IF outcome = "ok" THEN r.failed ELSE r.failed + 1

\* Line 132 / line 262: the stage is entered, from process_query or alone.
QueryKnowledgeGraph(from_query) ==
    /\ retrieval.pc = "idle"
    /\ from_query => query.pc = "graph"
    /\ retrieval' = [retrieval EXCEPT !.pc = "connect"]
    /\ query' = IF from_query THEN [query EXCEPT !.pc = "graph_wait"] ELSE query
    /\ UNCHANGED <<db, calls, nodes, edges, vectors, search, hashseed, cache>>

\* Lines 272-276: connect(); False (ArangoError inside connect) gives the
\* 'unavailable' string.
ConnectForRetrieval ==
    /\ retrieval.pc = "connect"
    /\ \E outcome \in StoreOutcomes(retrieval.failed) :
          LET r == [retrieval EXCEPT !.failed = Failed(retrieval, outcome)]
          IN  /\ db' = IF outcome = "ok" THEN TRUE
                       ELSE IF outcome = "ArangoError" THEN FALSE ELSE db
              /\ retrieval' =
                    IF outcome = "ok" THEN [r EXCEPT !.pc = "seeds"]
                    ELSE IF outcome = "ArangoError" THEN ReturnContext(r, ServiceUnavailable)
                    ELSE ReturnContext(r, ErrorRetrieving)
    /\ UNCHANGED <<calls, nodes, edges, vectors, search, hashseed, cache, query>>

\* Lines 287-304: the seed nodes, one query_nodes call for the one entity.
FindSeedNodes ==
    /\ retrieval.pc = "seeds"
    /\ \E outcome \in StoreOutcomes(retrieval.failed) :
       \E found \in query_nodes(nodes, entities_to_search[1], 1) :
          LET r == [retrieval EXCEPT !.failed = Failed(retrieval, outcome)]
              query_entity_nodes == IF outcome = "ok" THEN SetToSeq(found) ELSE <<>>
          IN  retrieval' =
                 IF outcome = "Exception" THEN ReturnContext(r, ErrorRetrieving)
                 ELSE IF query_entity_nodes = <<>> THEN ReturnContext(r, NoGraphData)
                 ELSE [r EXCEPT !.pc = "traverse", !.seeds = query_entity_nodes, !.i = 1]
    /\ UNCHANGED <<db, calls, nodes, edges, vectors, search, hashseed, cache, query>>

\* Lines 662-700: the traversal from seed i.  ArangoError is caught inside
\* traverse, which then answers an empty result; any other exception reaches
\* the handler of line 697, whose log line names the undefined start_node_id,
\* so a NameError leaves the loop and the function.
TraverseFromSeed ==
    /\ retrieval.pc = "traverse"
    /\ retrieval.i <= Len(retrieval.seeds)
    /\ \E outcome \in StoreOutcomes(retrieval.failed) :
          LET r == [retrieval EXCEPT !.failed = Failed(retrieval, outcome)]
              final_start_node_id == retrieval.seeds[retrieval.i].id
              result == IF outcome = "ok"
                        THEN traverse(nodes, edges, final_start_node_id, 1, TRAVERSAL_DEPTH)
                        ELSE EmptyGraphQueryResult
          IN  retrieval' =
                 IF outcome = "Exception" THEN ReturnContext(r, ErrorRetrieving)
                 ELSE [r EXCEPT
                         !.i = @ + 1,
                         !.full_graph_context =
                             [nodes |-> @.nodes \o result.nodes,
                              edges |-> @.edges \o result.edges],
                         !.traversed = Append(@, [start |-> final_start_node_id,
                                                  nodes |-> result.nodes,
                                                  edges |-> result.edges])]
    /\ UNCHANGED <<db, calls, nodes, edges, vectors, search, hashseed, cache, query>>

\* Line 703 and lines 555-645: the merged result is rendered.  Without an
\* edge the function returns "" before it asks the store; ArangoError inside
\* get_nodes_by_ids leaves no node resolved.
ResolveAndFormat ==
    /\ retrieval.pc = "traverse"
    /\ retrieval.i > Len(retrieval.seeds)
    /\ LET result == retrieval.full_graph_context
           all_full_ids == {result.nodes[k].id : k \in 1..Len(result.nodes)}
       IN  IF result.edges = <<>> \/ all_full_ids = {}
           THEN retrieval' = ReturnContext(retrieval, "")
           ELSE \E outcome \in StoreOutcomes(retrieval.failed) :
                   LET r == [retrieval EXCEPT !.failed = Failed(retrieval, outcome)]
                       resolved_nodes == IF outcome = "ok"
                                         THEN get_nodes_by_ids(nodes, all_full_ids)
                                         ELSE {}
                       rendered == _resolve_and_format_triples(result, resolved_nodes)
                   IN  retrieval' =
                          IF outcome = "Exception" THEN ReturnContext(r, ErrorRetrieving)
                          ELSE [ReturnContext(r, rendered.graph_context) EXCEPT
                                  !.unique_nodes = rendered.unique_nodes,
                                  !.unique_edges = rendered.unique_edges,
                                  !.formatted_triples = rendered.formatted_triples]
    /\ UNCHANGED <<db, calls, nodes, edges, vectors, search, hashseed, cache, query>>

\* ---------------------------------------------------------------- process_query (services/query_processing.py)

QueryTexts == {"Who is Watson", "What is DNA"}
QueryScopes == {"personal", "public"}

\* hash(query_text): the interpreter's string hash, a function of the text
\* into a fixed number of bits, salted when the process starts.
HashValues == {0, 1}
hash(query_text) == hashseed[query_text]

\* Line 81: f"query:{user_id}:{hash(query_text)}"
cache_key(user_id, query_text) == [user_id |-> user_id, hash |-> hash(query_text)]

\* Line 155.
query_id(query_text) == "query_" \o ToString(hash(query_text))

\* The mutant of ErrorResponse: the fallback keeps the confidence of an answer.
ErrorResponseConfident ==
    [query_id |-> "error",
     answer |-> "I'm sorry, I encountered an error while processing your query. Please try again later.",
     citations |-> <<>>, confidence |-> 8, suggested_follow_up_questions |-> <<>>]

\* Lines 173-179, confidence in tenths.
ErrorResponse ==
    [query_id |-> "error",
     answer |-> "I'm sorry, I encountered an error while processing your query. Please try again later.",
     citations |-> <<>>, confidence |-> 0, suggested_follow_up_questions |-> <<>>]

NoResponse ==
    [query_id |-> "", answer |-> "", citations |-> <<>>, confidence |-> 0,
     suggested_follow_up_questions |-> <<>>]

\* The text the generation service answers to the prompt built for this
\* query text and scope.
Answer(query_text, scope) == "answer to " \o query_text \o " in scope " \o scope

\* Lines 153-160, confidence 0.8 in tenths.
QueryResponse(query_text, answer, citations, suggested_follow_up_questions) ==
    [query_id |-> query_id(query_text), answer |-> answer, citations |-> citations,
     confidence |-> 8, suggested_follow_up_questions |-> suggested_follow_up_questions]

\* response.json(): the fields in order.
Serialize(response) ==
    <<response.query_id, response.answer, response.citations, response.confidence,
      response.suggested_follow_up_questions>>

\* QueryResponse(**json.loads(cached_response))
Deserialize(cached_response) ==
    [query_id |-> cached_response[1], answer |-> cached_response[2],
     citations |-> cached_response[3], confidence |-> cached_response[4],
     suggested_follow_up_questions |-> cached_response[5]]

\* cache.get(key): the value, or None.
NoCached == <<>>
CacheGet(entries, key) ==
    IF \E e \in entries : e.key = key
    THEN (CHOOSE e \in entries : e.key = key).value
    ELSE NoCached

\* The mutant of CacheSet: what is written is the fixed error response.
CacheSetError(entries, key, value) ==
    {e \in entries : e.key # key} \cup {[key |-> key, value |-> Serialize(ErrorResponse)]}

\* cache.set(key, value, ex=3600)
CacheSet(entries, key, value) ==
    {e \in entries : e.key # key} \cup {[key |-> key, value |-> value]}

IdleQuery ==
    [pc |-> "idle", served |-> 0, user_id |-> "", query_text |-> "", scope |-> "personal",
     relevant_papers |-> <<>>, answer |-> "", suggested_follow_up_questions |-> <<>>,
     log |-> <<>>, failed |-> 0, response |-> NoResponse]

LogCall(call, ok, argument) == [call |-> call, ok |-> ok, argument |-> argument]

\* The answers of an external service to the next call of the query: it
\* answers, or (for at most MaxFailures calls of a query) it raises.
ServiceOutcomes == IF query.failed < MaxFailures THEN BOOLEAN ELSE {TRUE}

\* One more call in the log of the query.
Called(q, call, ok, argument) ==
    [q EXCEPT !.log = Append(@, LogCall(call, ok, argument)),
              !.failed = IF ok THEN @ ELSE @ + 1]

\* Lines 170-179: the except branch answers the fallback.
Fallback(q) == [q EXCEPT !.pc = "done", !.response = ErrorResponse]

\* The mutant of AfterCacheGet: the pipeline runs although the cache answered.
AfterCacheGetRecompute(cached_response) == "embed"

\* Lines 83-86: a cached response ends the call.
AfterCacheGet(cached_response) == IF cached_response # NoCached THEN "done" ELSE "embed"

\* Lines 79-86: a query arrives and the cache is asked.
CheckCache ==
    /\ query.pc \in {"idle", "done"}
    /\ query.served < MaxQueries
    /\ \E user_id \in Users, query_text \in QueryTexts, scope \in QueryScopes,
          ok \in ServiceOutcomes :
          LET cached_response == CacheGet(cache, cache_key(user_id, query_text))
              q == Called([IdleQuery EXCEPT !.served = query.served + 1,
                                            !.user_id = user_id,
                                            !.query_text = query_text,
                                            !.scope = scope],
                          "cache_get", ok, "")
          IN  query' =
                 IF ~ok THEN Fallback(q)
                 ELSE IF cached_response # NoCached
                 THEN [q EXCEPT !.pc = AfterCacheGet(cached_response),
                                !.response = Deserialize(cached_response),
                                !.log = <<LogCall("cache_get", TRUE, "hit")>>]
                 ELSE [q EXCEPT !.pc = AfterCacheGet(cached_response)]
    /\ retrieval' = IdleRetrieval
    /\ UNCHANGED <<db, calls, nodes, edges, vectors, search, hashseed, cache>>

\* Lines 90-92.
GenerateQueryEmbedding ==
    /\ query.pc = "embed"
    /\ \E ok \in ServiceOutcomes :
          LET q == Called(query, "embedding", ok, "")
          IN  query' = IF ok THEN [q EXCEPT !.pc = "search"] ELSE Fallback(q)
    /\ UNCHANGED <<db, calls, nodes, edges, vectors, search, hashseed, cache, retrieval>>

\* Lines 97-127: the vector search (its merge is SearchUserNamespace and
\* SearchPublicNamespace) and the context; then, with graph_db.db None, the
\* connect of line 119 comes before the graph stage.
SearchRelevantPapers ==
    /\ query.pc = "search"
    /\ \E ok \in ServiceOutcomes :
          LET q == Called(query, "vector_search", ok, "")
              relevant_papers == <<"d1">>
          IN  query' = IF ok
                       THEN [q EXCEPT !.pc = IF db THEN "graph" ELSE "connect",
                                      !.relevant_papers = relevant_papers]
                       ELSE Fallback(q)
    /\ UNCHANGED <<db, calls, nodes, edges, vectors, search, hashseed, cache, retrieval>>

\* Lines 116-127: connect(); on False the call goes to
\* self._build_error_response, which the class does not define, so the
\* AttributeError reaches the except branch.
ConnectGraph ==
    /\ query.pc = "connect"
    /\ \E ok \in ServiceOutcomes :
          LET q == Called(query, "graph_connect", ok, "")
          IN  /\ query' = IF ok THEN [q EXCEPT !.pc = "graph"] ELSE Fallback(q)
              /\ db' = ok
    /\ UNCHANGED <<calls, nodes, edges, vectors, search, hashseed, cache, retrieval>>

\* Lines 143-149: the answer, from the context and the graph context, and
\* the citations of the papers it names.
GenerateAnswer ==
    /\ query.pc = "graph_wait"
    /\ retrieval.pc = "done"
    /\ \E ok \in ServiceOutcomes :
          LET q == Called(query, "generate_answer", ok, retrieval.graph_context)
          IN  query' = IF ok
                       THEN [q EXCEPT !.pc = "followup",
                                      !.answer = Answer(query.query_text, query.scope)]
                       ELSE Fallback(q)
    /\ UNCHANGED <<db, calls, nodes, edges, vectors, search, hashseed, cache, retrieval>>

\* Lines 979-1006: the follow-up questions; an exception is caught inside
\* and gives no question.
GenerateFollowUpQuestions ==
    /\ query.pc = "followup"
    /\ \E ok \in ServiceOutcomes :
          query' = [Called(query, "follow_up_questions", ok, "") EXCEPT
                      !.pc = "cache_set",
                      !.suggested_follow_up_questions =
                          IF ok THEN <<"follow-up">> ELSE <<>>]
    /\ UNCHANGED <<db, calls, nodes, edges, vectors, search, hashseed, cache, retrieval>>

\* Lines 153-168: the response is built, cached and returned.
CacheResponse ==
    /\ query.pc = "cache_set"
    /\ \E ok \in ServiceOutcomes :
          LET response == QueryResponse(query.query_text, query.answer,
                                        query.relevant_papers,
                                        query.suggested_follow_up_questions)
              q == Called(query, "cache_set", ok, "")
          IN  /\ query' = IF ok THEN [q EXCEPT !.pc = "done", !.response = response]
                          ELSE Fallback(q)
              /\ cache' = IF ok
                          THEN CacheSet(cache, cache_key(query.user_id, query.query_text),
                                        Serialize(response))
                          ELSE cache
    /\ UNCHANGED <<db, calls, nodes, edges, vectors, search, hashseed, retrieval>>

\* ex=3600: an entry expires.  Between two queries is the only place where
\* the moment of expiry makes a difference to a query.
CacheExpire ==
    /\ query.pc = "done"
    /\ \E e \in cache : cache' = cache \ {e}
    /\ UNCHANGED <<db, calls, nodes, edges, vectors, search, hashseed, query, retrieval>>

\* ---------------------------------------------------------------- specifications

CRISPR == Entity("CRISPR", "concept")
MIT == Entity("MIT", "organization")
JaneDoe == Entity("Jane Doe", "person")
Boston == Entity("Boston", "location")

IngestEntities == {CRISPR, MIT, JaneDoe, Boston}
IngestRelations == {Relation(JaneDoe, CRISPR, "authored_by"),
                    Relation(MIT, CRISPR, "uses"),
                    Relation(JaneDoe, Boston, "located_at")}
IngestDocuments == Documents({"alice"}, BOOLEAN, IngestEntities, IngestRelations)

OrderEntities == {CRISPR, MIT, JaneDoe}
OrderRelations == {Relation(MIT, CRISPR, "uses")}
OrderDocuments ==
    [user_id : {"alice"}, is_public : BOOLEAN,
     entities : SeqsUpTo(OrderEntities, MaxEntities + 1),
     relations : SeqsUpTo(OrderRelations, MaxRelations)]

\* user_id is whatever string the upload form carries (api/upload.py:43).
VectorUsers == {"alice", "bob", "public"}
VectorDocuments ==
    [user_id : VectorUsers, is_public : BOOLEAN, entities : {<<>>}, relations : {<<>>}]

FilterEntities == {Entity("X", type) : type \in EntityTypes}
FilterRelations == {Relation(s, t, r) :
                       s \in {CRISPR, JaneDoe}, t \in {MIT, Boston},
                       r \in sensitive_relations \cup {"uses"}}
FilterDocuments == Documents({"alice"}, BOOLEAN, FilterEntities, FilterRelations)

AmazonOrg == Entity("Amazon", "organization")
AmazonLoc == Entity("Amazon", "location")
ConcurrentEntities == {MIT, AmazonOrg, AmazonLoc}
ConcurrentDocuments ==
    [user_id : {"alice"}, is_public : {FALSE},
     entities : SeqsUpTo(ConcurrentEntities, MaxEntities),
     relations : {<<>>, <<Relation(MIT, AmazonOrg, "uses")>>}]

Init ==
    /\ db = FALSE
    /\ calls = [c \in Calls |-> IdleCall]
    /\ nodes = {}
    /\ edges = {}
    /\ vectors = {}
    /\ search = IdleSearch
    /\ hashseed = [query_text \in QueryTexts |-> 0]
    /\ cache = {}
    /\ query = IdleQuery
    /\ retrieval = IdleRetrieval

\* One step of ingestion call c.
Ingest(c, failures, documents) ==
    \/ Upload(c, failures, documents)
    \/ ComplianceStep(c)
    \/ UpsertUserVector(c)
    \/ UpsertPaperNode(c, failures)
    \/ UpsertPublicEntityNode(c, failures)
    \/ UpsertPublicContainsEdge(c, failures)
    \/ UpsertPrivateEntityNode(c, failures)
    \/ UpsertPrivateContainsEdge(c, failures)
    \/ SkipRelation(c)
    \/ UpsertRelationEdge(c, failures)
    \/ Return(c)

\* One ingestion call against a graph store that may reject upserts.
Next == Ingest(1, MaxFailures, IngestDocuments)

Spec == Init /\ [][Next]_vars

\* One ingestion call of a document that can hold public entities, a private
\* entity and relations between them at once.
NextOrder == Ingest(1, MaxFailures, OrderDocuments)

SpecOrder == Init /\ [][NextOrder]_vars

\* Ingestion calls of documents without entities, by users of any id, with
\* metadata PaperCreate accepts or rejects, and one search of the vectors
\* they leave, at any moment.
NextVectors ==
    \/ \E c \in Calls :
          \/ Upload(c, 0, VectorDocuments)
          \/ ComplianceStep(c)
          \/ UpsertUserVector(c)
          \/ PaperCreateInvalid(c)
          \/ UpsertPaperNode(c, 0)
          \/ Return(c)
    \/ SearchUserVectors(VectorUsers)
    \/ SearchPublicVectors

SpecVectors == Init /\ [][NextVectors]_vars

\* filter_content on every document over FilterEntities and FilterRelations.
NextFilter ==
    \/ Upload(1, 0, FilterDocuments)
    \/ ComplianceStep(1)

SpecFilter == Init /\ [][NextFilter]_vars

\* Two ingestion calls of different documents, interleaved at every await.
NextConcurrent == \E c \in Calls : Ingest(c, 0, ConcurrentDocuments)

SpecConcurrent == Init /\ [][NextConcurrent]_vars

\* _search_relevant_papers on every pair of result lists.
NextSearch == SearchUserNamespace \/ SearchPublicNamespace

SpecSearch == Init /\ [][NextSearch]_vars

\* The graph stores retrieval is run on: documents as upsert_node and
\* upsert_edge leave them, every edge between two documents of the store.
StoredNode(collection, n, label, original_text, is_public, owner_id) ==
    [id |-> [collection |-> collection, key |-> uuid4(0, n)], label |-> label,
     is_public |-> is_public, owner_id |-> owner_id, original_text |-> original_text]

StoredEdge(source, target, label) ==
    [id |-> [collection |-> "edges_" \o label,
             key |-> <<KeyPart(source.id), label, KeyPart(target.id)>>],
     from |-> source.id, to |-> target.id, label |-> label,
     is_public |-> TRUE, owner_id |-> NoOwner]

Helix == StoredNode("nodes_concept", 1, "helix", "helix", TRUE, NoOwner)
HelixMethod == StoredNode("nodes_methodology", 2, "", "Helix", TRUE, NoOwner)
DNA == StoredNode("nodes_concept", 3, "DNA", "DNA", TRUE, NoOwner)
Watson == StoredNode("nodes_person", 4, "", "", FALSE, "alice")
PaperNode == StoredNode("nodes_paper", 5, "paper.pdf", "", TRUE, NoOwner)
JaneNode == StoredNode("nodes_person", 6, "Jane Doe", "Jane Doe", FALSE, "alice")

RetrievalNodes == {Helix, HelixMethod, DNA, Watson, PaperNode}
RetrievalEdges ==
    {StoredEdge(Helix, DNA, "related_to"), StoredEdge(DNA, Watson, "studied_by"),
     StoredEdge(PaperNode, Watson, "contains"), StoredEdge(PaperNode, Helix, "contains"),
     StoredEdge(HelixMethod, DNA, "uses"), StoredEdge(Helix, Watson, "discovered_by")}

\* The stores of at most MaxEdges edges.
RetrievalGraphs ==
    {g \in [nodes : SUBSET RetrievalNodes, edges : SUBSET RetrievalEdges] :
        /\ Cardinality(g.edges) <= MaxEdges
        /\ \A d \in g.edges : \E n, m \in g.nodes : n.id = d.from /\ m.id = d.to}

InitRetrieval ==
    /\ db = FALSE
    /\ calls = [c \in Calls |-> IdleCall]
    /\ \E g \in RetrievalGraphs : nodes = g.nodes /\ edges = g.edges
    /\ vectors = {}
    /\ search = IdleSearch
    /\ hashseed = [query_text \in QueryTexts |-> 0]
    /\ cache = {}
    /\ query = IdleQuery
    /\ retrieval = IdleRetrieval

\* _query_knowledge_graph on every store of RetrievalGraphs.
NextRetrieval ==
    \/ QueryKnowledgeGraph(FALSE)
    \/ ConnectForRetrieval
    \/ FindSeedNodes
    \/ TraverseFromSeed
    \/ ResolveAndFormat

SpecRetrieval == InitRetrieval /\ [][NextRetrieval]_vars

\* The store process_query is run on: one seed with an edge to a public node
\* and an edge to a private node of user alice.
QueryGraphs ==
    {[nodes |-> {Helix, DNA, JaneNode},
      edges |-> {StoredEdge(Helix, DNA, "related_to"),
                 StoredEdge(Helix, JaneNode, "studied_by")}]}

InitQuery ==
    /\ db = FALSE
    /\ calls = [c \in Calls |-> IdleCall]
    /\ \E g \in QueryGraphs : nodes = g.nodes /\ edges = g.edges
    /\ vectors = {}
    /\ search = IdleSearch
    /\ hashseed \in [QueryTexts -> HashValues]
    /\ cache = {}
    /\ query = IdleQuery
    /\ retrieval = IdleRetrieval

\* Queries one after the other against services that may fail.
NextQuery ==
    \/ CheckCache
    \/ GenerateQueryEmbedding
    \/ SearchRelevantPapers
    \/ ConnectGraph
    \/ QueryKnowledgeGraph(TRUE)
    \/ ConnectForRetrieval
    \/ FindSeedNodes
    \/ TraverseFromSeed
    \/ ResolveAndFormat
    \/ GenerateAnswer
    \/ GenerateFollowUpQuestions
    \/ CacheResponse
    \/ CacheExpire

SpecQuery == InitQuery /\ [][NextQuery]_vars

\* ---------------------------------------------------------------- properties

Filtered(c) == calls[c].pc \notin {"idle", "extracted"} /\ calls[c].result.status # "failed"

\* C1: whatever the entities, the relations and is_public, filter_content
\* never puts the same entity in both public_entities and private_entities.
C1_NoEntityInBothOutputs ==
    \A c \in Calls :
        Filtered(c) =>
            /\ Range(calls[c].filtered.public_entities)
                   \cap Range(calls[c].filtered.private_entities) = {}
            /\ Range(calls[c].filtered.public_entities)
                   \cup Range(calls[c].filtered.private_entities) \subseteq Range(calls[c].entities)

\* The filter has split a private document with entities of both kinds.
C1_Witness ==
    \E c \in Calls :
        /\ Filtered(c)
        /\ ~calls[c].is_public
        /\ Len(calls[c].filtered.public_entities) > 0
        /\ Len(calls[c].filtered.private_entities) > 0

\* C2: whatever the input and is_public, no relation named authored_by,
\* located_at or contact_info is in public_relations, whatever the types of
\* its endpoints.
C2_NoSensitivePublicRelation ==
    \A c \in Calls :
        Filtered(c) =>
            \A k \in 1..Len(calls[c].filtered.public_relations) :
                calls[c].filtered.public_relations[k].relationship
                    \notin {"authored_by", "located_at", "contact_info"}

\* The filter has run on a sensitive relation between two public-eligible
\* entities, next to a relation it did make public.
C2_Witness ==
    \E c \in Calls :
        /\ Filtered(c)
        /\ \E k \in 1..Len(calls[c].relations) :
               LET relation == calls[c].relations[k]
               IN  /\ relation.relationship \in {"authored_by", "located_at", "contact_info"}
                   /\ relation.source_entity.type = "concept"
                   /\ relation.target_entity.type = "organization"
        /\ Len(calls[c].filtered.public_relations) > 0

\* The upserts of relation edges that call c has issued.
RelationUpserts(c) ==
    {calls[c].log[k] : k \in {j \in 1..Len(calls[c].log) :
                                 /\ calls[c].log[j].op = "upsert"
                                 /\ calls[c].log[j].kind = "relation"}}

\* Node id `id` was generated by call c for an entity of its own entity set,
\* in visibility class `private`.
OwnEntityId(c, id, private) ==
    /\ id.key.call = c
    /\ \E k \in 1..Len(calls[c].entity_key_map) :
           LET item == calls[c].entity_key_map[k]
           IN  /\ item.node_id = id
               /\ item.priv = private
               /\ \E e \in Range(calls[c].entities) :
                      e.text = item.text /\ IsPrivateEntity(e) = private

\* C3: under any interleaving of concurrent ingestion calls, every relation
\* edge a call writes joins two node ids that the same call generated for
\* entities of its own entity set, both in the visibility class of the
\* relation, and every stored relation edge is such an edge; the items of a
\* call's entity_key_map are all of its own making.
C3_RelationEndpointsOwn ==
    /\ \A c \in Calls :
           /\ \A u \in RelationUpserts(c) :
                  /\ OwnEntityId(c, u.source_id, u.private)
                  /\ OwnEntityId(c, u.target_id, u.private)
           /\ \A k \in 1..Len(calls[c].entity_key_map) :
                  calls[c].entity_key_map[k].node_id.key.call = c
    /\ \A d \in edges :
           d.label # "contains" =>
               \E c \in Calls :
                   /\ OwnEntityId(c, d.from, ~d.is_public)
                   /\ OwnEntityId(c, d.to, ~d.is_public)

\* Both calls are under way with the same entity text in their maps, and one
\* of them has written a relation edge.
C3_Witness ==
    /\ \A c \in Calls : calls[c].pc \notin {"idle", "done"}
    /\ \E k1 \in 1..Len(calls[1].entity_key_map), k2 \in 1..Len(calls[2].entity_key_map) :
           calls[1].entity_key_map[k1].text = calls[2].entity_key_map[k2].text
    /\ \E d \in edges : d.label # "contains"
    /\ \E c \in Calls : calls[c].pc = "relations" /\ calls[c].i <= Len(all_relations(calls[c]))

\* The graph store holds a node under identifier `id`.
NodeExists(id) == \E n \in nodes : n.id = id

\* C4: in every state of the graph store, source_id and target_id of each
\* stored edge identify a node that the store holds under exactly that
\* identifier.
C4_EdgeEndpointsExist ==
    \A d \in edges : NodeExists(d.from) /\ NodeExists(d.to)

\* The entity nodes and relation edges the store holds, by visibility.
EntityNodes(public) ==
    {n \in nodes : n.id.collection # "nodes_paper" /\ n.is_public = public}

RelationEdges(public) ==
    {d \in edges : d.label # "contains" /\ d.is_public = public}

\* The call ingested the public CRISPR / Jane Doe document and every upsert
\* was stored.
CrisprScenario(c) ==
    /\ calls[c].pc = "done"
    /\ calls[c].result.status = "completed"
    /\ calls[c].is_public
    /\ Len(calls[c].entities) = 2
    /\ Range(calls[c].entities) = {CRISPR, JaneDoe}
    /\ calls[c].relations = <<Relation(JaneDoe, CRISPR, "authored_by")>>
    /\ FailedUpserts(c) = 0

\* C5, as claimed: the public CRISPR / Jane Doe document yields one public
\* entity node (CRISPR), no public relation edge, and one private entity node
\* plus one private relation edge owned by the uploader.
C5_AsClaimed ==
    CrisprScenario(1) =>
        /\ \E n \in nodes : EntityNodes(TRUE) = {n} /\ n.original_text = "CRISPR"
        /\ RelationEdges(TRUE) = {}
        /\ \E n \in nodes : EntityNodes(FALSE) = {n} /\ n.owner_id = calls[1].user_id
        /\ Cardinality(RelationEdges(FALSE)) = 1

\* C5, amended: the public CRISPR / Jane Doe document yields one public
\* entity node (CRISPR), no public relation edge, and neither a private
\* entity node nor a private relation edge.
C5_PublicDocumentKeepsPublicOnly ==
    CrisprScenario(1) =>
        /\ \E n \in nodes : EntityNodes(TRUE) = {n} /\ n.original_text = "CRISPR"
        /\ RelationEdges(TRUE) = {}
        /\ EntityNodes(FALSE) = {}
        /\ RelationEdges(FALSE) = {}

C5_Witness == CrisprScenario(1) /\ Cardinality(nodes) = 2 /\ Cardinality(edges) = 1

\* The positions of the log of call c that record an upsert of this kind.
Upserts(c, kind) ==
    {k \in 1..Len(calls[c].log) :
        calls[c].log[k].op = "upsert" /\ calls[c].log[k].kind = kind}

Warnings(c) == {k \in 1..Len(calls[c].log) : calls[c].log[k].op = "warning"}

\* The document of call c lists an entity of this text in the visibility
\* class of the relation.
Listed(c, text, private) ==
    LET listed == IF private THEN calls[c].filtered.private_entities
                  ELSE calls[c].filtered.public_entities
    IN  \E k \in 1..Len(listed) : listed[k].text = text

HasEndpoints(c, relation) ==
    LET private == is_private(calls[c], relation)
    IN  /\ Listed(c, relation.source_entity.text, private)
        /\ Listed(c, relation.target_entity.text, private)

\* C6: once the call is over, a relation with an endpoint missing from the
\* entities of its visibility class has a warning and no edge upsert, every
\* relation with both endpoints has its edge upsert, and a call that warned
\* reports 'completed'.
C6_MissingEndpointSkipped ==
    calls[1].pc = "done" =>
        /\ \A i \in 1..Len(all_relations(calls[1])) :
              IF HasEndpoints(1, all_relations(calls[1])[i])
              THEN /\ \E k \in Upserts(1, "relation") : calls[1].log[k].index = i
                   /\ \A k \in Warnings(1) : calls[1].log[k].index # i
              ELSE /\ \E k \in Warnings(1) : calls[1].log[k].index = i
                   /\ \A k \in Upserts(1, "relation") : calls[1].log[k].index # i
        /\ Warnings(1) # {} => calls[1].result.status = "completed"

C6_Witness ==
    /\ calls[1].pc = "done"
    /\ calls[1].result.status = "completed"
    /\ \E w \in Warnings(1), k \in Upserts(1, "relation") :
          /\ w < k
          /\ calls[1].log[k].ok
          /\ \E d \in edges : d.id.key = calls[1].log[k].id.key

\* C7: when the upsert of the paper node failed, the call upserts no entity
\* node, no 'contains' edge and no relation edge, and does not report
\* 'completed'.
C7_PaperNodeFailureFatal ==
    (\E k \in Upserts(1, "paper") : ~calls[1].log[k].ok) =>
        /\ Upserts(1, "entity") \cup Upserts(1, "contains") \cup Upserts(1, "relation") = {}
        /\ calls[1].result.status # "completed"

C9_CountsAreStored ==
    (calls[1].pc = "done" /\ calls[1].result.status = "completed") =>
        /\ calls[1].result.public_entities_count = Cardinality(EntityNodes(TRUE))
        /\ calls[1].result.private_entities_count = Cardinality(EntityNodes(FALSE))
        /\ calls[1].result.public_relations_count = Cardinality(RelationEdges(TRUE))
        /\ calls[1].result.private_relations_count = Cardinality(RelationEdges(FALSE))

\* What the namespaces answered to the search.
Searched == search.user_results \o search.public_results

\* C10: the merged list holds no doc_id twice, and the score of the entry it
\* holds for a doc_id is the highest score the namespaces answered for it.
C10_MergedUniqueHighest ==
    search.pc = "done" =>
        /\ \A j, k \in 1..Len(search.merged) :
              search.merged[j].doc_id = search.merged[k].doc_id => j = k
        /\ \A k \in 1..Len(search.merged) :
              /\ \E j \in 1..Len(Searched) : Searched[j] = search.merged[k]
              /\ \A j \in 1..Len(Searched) :
                    Searched[j].doc_id = search.merged[k].doc_id =>
                        Searched[j].score <= search.merged[k].score

C10_Witness ==
    /\ search.pc = "done"
    /\ \E j \in 1..Len(search.user_results), k \in 1..Len(search.public_results) :
          /\ search.user_results[j].doc_id = search.public_results[k].doc_id
          /\ search.user_results[j].doc_id # NoDocId
          /\ search.user_results[j].score < search.public_results[k].score
          /\ Len(search.merged) = 1
          /\ search.merged[1] = search.public_results[k]

\* C11: every search asks the namespace of the requesting user first, and
\* asks the namespace "public" after it exactly when the scope is shared,
\* public or cross_domain, never for scope personal.
C11_NamespacesByScope ==
    /\ search.pc # "idle" =>
          /\ Len(search.namespaces) >= 1
          /\ search.namespaces[1] = search.user_id
    /\ search.pc = "done" =>
          /\ (\E k \in 2..Len(search.namespaces) : search.namespaces[k] = "public")
                <=> search.scope \in {"shared", "public", "cross_domain"}
          /\ search.scope = "personal" => search.namespaces = <<search.user_id>>
          /\ Len(search.namespaces) <= 2

C11_Witness ==
    /\ search.pc = "done"
    /\ search.scope = "cross_domain"
    /\ search.namespaces = <<"bob", "public">>

\* The calls of the query that answered with an exception.
FailedCalls == {query.log[k].call : k \in {j \in 1..Len(query.log) : ~query.log[j].ok}}

\* The response is the fixed apologetic one.
IsFallback(response) ==
    /\ response.query_id = "error"
    /\ response.confidence = 0
    /\ response.citations = <<>>
    /\ response.suggested_follow_up_questions = <<>>
    /\ response.answer =
          "I'm sorry, I encountered an error while processing your query. Please try again later."

\* The calls whose exception no stage catches before the except of process_query.
UnhandledCalls ==
    {"cache_get", "embedding", "vector_search", "graph_connect", "generate_answer", "cache_set"}

\* C12, as claimed: a query during which the cache, the embedding, the vector
\* search, the graph store or the text generation failed at any step ends
\* with the fixed response of confidence 0.0 and no citations.
C12_AsClaimed ==
    (query.pc = "done" /\ (FailedCalls # {} \/ retrieval.failed > 0)) =>
        IsFallback(query.response)

\* C12, amended: every query ends with a response; a failure that no stage
\* catches (cache read or write, embedding, vector search, the connect before
\* the graph stage, answer generation) gives the fixed response of confidence
\* 0.0 and no citations, and a failure caught inside its stage (graph
\* retrieval, follow-up questions) alone leaves a regular response of the query.
C12_UnhandledFailureFallsBack ==
    query.pc = "done" =>
        /\ query.response # NoResponse
        /\ FailedCalls \cap UnhandledCalls # {} => IsFallback(query.response)
        /\ FailedCalls \cap UnhandledCalls = {} =>
              /\ query.response.confidence = 8
              /\ query.response.query_id = query_id(query.query_text)

C12_Witness ==
    /\ query.pc = "done"
    /\ FailedCalls = {"cache_set"}
    /\ \E k \in 1..Len(query.log) : query.log[k].call = "generate_answer" /\ query.log[k].ok
    /\ IsFallback(query.response)

\* The query that has just arrived found its key in the cache.
CacheHit ==
    /\ query'.served # query.served
    /\ query'.log[1].ok
    /\ CacheGet(cache, cache_key(query'.user_id, query'.query_text)) # NoCached

\* C13: a query whose key is in the cache ends in the step that read the
\* cache, with the deserialized entry as its response; it issues no
\* embedding, vector search, graph retrieval or generation call and leaves
\* the cache as it was.
C13_CacheHitShortCircuits ==
    /\ [][CacheHit =>
            /\ query'.pc = "done"
            /\ query'.response =
                  Deserialize(CacheGet(cache, cache_key(query'.user_id, query'.query_text)))
            /\ query'.log = <<LogCall("cache_get", TRUE, "hit")>>
            /\ retrieval'.pc = "idle"
            /\ cache' = cache]_vars
    /\ [](\A k \in 1..Len(query.log) :
             query.log[k].argument = "hit" => Len(query.log) = 1 /\ retrieval.pc = "idle")

C13_Witness ==
    /\ query.pc = "done"
    /\ query.served = 2
    /\ query.log = <<LogCall("cache_get", TRUE, "hit")>>
    /\ query.response.confidence = 8
    /\ query.response.answer = Answer(query.query_text, query.scope)
    /\ \E e \in cache : e.key = cache_key(query.user_id, query.query_text)

\* C14: a response served from the cache was computed for the query text
\* (and the user) of the query it is served to: two query texts of one user
\* never share a cache entry.
C14_CacheEntryOwnText ==
    (query.pc = "done" /\ query.log = <<LogCall("cache_get", TRUE, "hit")>>) =>
        \E scope \in QueryScopes : query.response.answer = Answer(query.query_text, scope)

\* C15: a query during which the graph store failed, at the connect before
\* the graph stage or inside graph retrieval, still reaches answer
\* generation, which is called with the string the stage degraded to.
C15_GraphFailureDoesNotAbort ==
    (query.pc = "done" /\ ("graph_connect" \in FailedCalls \/ retrieval.failed > 0)) =>
        \E k \in 1..Len(query.log) :
            /\ query.log[k].call = "generate_answer"
            /\ query.log[k].argument = retrieval.graph_context

\* The text the claim wants shown for the node of this id.
ShownText(id) == human_readable_text(CHOOSE n \in nodes : n.id = id)

\* The texts a rendered node can have.
NodeTexts == {ShownText(n.id) : n \in nodes} \cup {IdText(n.id) : n \in nodes}

\* C16: no line of the rendered graph context is the triple of an edge
\* whose label is 'contains'.
C16_NoContainsTriple ==
    \A k \in 1..Len(retrieval.formatted_triples) :
        \A source_label, target_label \in NodeTexts :
            retrieval.formatted_triples[k] # FormatTriple(source_label, "contains", target_label)

\* C17: the graph context the stage returns is never the empty string: with
\* nothing to render it is a sentence that says so.
C17_ContextNeverEmpty ==
    retrieval.pc = "done" =>
        /\ retrieval.graph_context # ""
        /\ retrieval.full_graph_context.edges = <<>> =>
              retrieval.graph_context \in {ServiceUnavailable, NoGraphData, ErrorRetrieving}

\* C18: every rendered triple shows, for the source and the target of its
\* edge, the label of the node, else its original_text, else its raw id.
C18_NodeTextFallback ==
    \A k \in 1..Len(retrieval.formatted_triples) :
        retrieval.formatted_triples[k] =
            FormatTriple(ShownText(retrieval.unique_edges[k].from),
                         retrieval.unique_edges[k].label,
                         ShownText(retrieval.unique_edges[k].to))

\* The identifiers in a list of nodes or edges.
Ids(items) == {items[k].id : k \in 1..Len(items)}

\* C19: once the merged result is rendered, every node and every edge of it
\* is kept once by identifier, and there is one triple per edge identifier.
C19_MergedOncePerId ==
    retrieval.unique_edges # <<>> =>
        /\ Ids(retrieval.unique_edges) = Ids(retrieval.full_graph_context.edges)
        /\ Len(retrieval.unique_edges) = Cardinality(Ids(retrieval.full_graph_context.edges))
        /\ Ids(retrieval.unique_nodes) = Ids(retrieval.full_graph_context.nodes)
        /\ Len(retrieval.unique_nodes) = Cardinality(Ids(retrieval.full_graph_context.nodes))
        /\ Len(retrieval.formatted_triples) = Cardinality(Ids(retrieval.full_graph_context.edges))

C19_Witness ==
    /\ retrieval.pc = "done"
    /\ Len(retrieval.seeds) = 2
    /\ \E j, k \in 1..Len(retrieval.full_graph_context.edges) :
          /\ j # k
          /\ retrieval.full_graph_context.edges[j].id = retrieval.full_graph_context.edges[k].id
    /\ \E j, k \in 1..Len(retrieval.full_graph_context.nodes) :
          /\ j # k
          /\ retrieval.full_graph_context.nodes[j].id = retrieval.full_graph_context.nodes[k].id
    /\ Len(retrieval.formatted_triples) = Cardinality(Ids(retrieval.full_graph_context.edges))
    /\ Len(retrieval.formatted_triples) < Len(retrieval.full_graph_context.edges)

\* The vertices one edge away from a vertex, in either orientation.
Neighbours(vertex_id) ==
    {d.to : d \in {x \in edges : x.from = vertex_id}} \cup
    {d.from : d \in {x \in edges : x.to = vertex_id}}

\* The vertices at most two edges away.
WithinTwo(vertex_id) ==
    Neighbours(vertex_id) \cup UNION {Neighbours(v) : v \in Neighbours(vertex_id)}

\* C20: the traversal from a seed returns only nodes at most two edges away
\* from it, over edges of either orientation, and only edges between the
\* seed and such nodes.
C20_DepthAtMostTwo ==
    \A t \in 1..Len(retrieval.traversed) :
        LET start == retrieval.traversed[t].start
            near == WithinTwo(start) \cup {start}
        IN  /\ \A k \in 1..Len(retrieval.traversed[t].nodes) :
                  retrieval.traversed[t].nodes[k].id \in WithinTwo(start)
            /\ \A k \in 1..Len(retrieval.traversed[t].edges) :
                  /\ retrieval.traversed[t].edges[k].from \in near
                  /\ retrieval.traversed[t].edges[k].to \in near

C20_Witness ==
    /\ retrieval.pc = "done"
    /\ retrieval.formatted_triples # <<>>
    /\ \E t \in 1..Len(retrieval.traversed) :
          /\ retrieval.traversed[t].start = Helix.id
          /\ PaperNode \in nodes
          /\ PaperNode.id \notin WithinTwo(Helix.id)
          /\ PaperNode.id \in UNION {Neighbours(v) : v \in WithinTwo(Helix.id)}
          /\ Watson.id \in Ids(retrieval.traversed[t].nodes)
          /\ PaperNode.id \notin Ids(retrieval.traversed[t].nodes)

\* The relationship of the edge upsert logged at position k of call c.
RelationshipOf(c, k) ==
    IF calls[c].log[k].kind = "contains" THEN "contains"
    ELSE all_relations(calls[c])[calls[c].log[k].index].relationship

\* The edge upserts call c has issued.
EdgeUpserts(c) ==
    {k \in 1..Len(calls[c].log) :
        calls[c].log[k].op = "upsert" /\ calls[c].log[k].kind \in {"contains", "relation"}}

\* Two edge upserts of the call for the same (source_id, target_id, relationship).
SameTriple(c, j, k) ==
    /\ calls[c].log[j].source_id = calls[c].log[k].source_id
    /\ calls[c].log[j].target_id = calls[c].log[k].target_id
    /\ RelationshipOf(c, j) = RelationshipOf(c, k)

\* C21: two edge upserts for the same (source_id, target_id, relationship)
\* carry the same edge identifier, and the store holds one edge for the
\* triple however often it was upserted.
C21_SameTripleSameEdge ==
    /\ \A j, k \in EdgeUpserts(1) :
          SameTriple(1, j, k) => calls[1].log[j].id = calls[1].log[k].id
    /\ \A d, e \in edges :
          (d.from = e.from /\ d.to = e.to /\ d.label = e.label) => d = e

C21_Witness ==
    \E j, k \in EdgeUpserts(1) :
        /\ j < k
        /\ SameTriple(1, j, k)
        /\ calls[1].log[j].ok /\ calls[1].log[k].ok
        /\ calls[1].pc = "done"
        /\ Cardinality({d \in edges : /\ d.from = calls[1].log[k].source_id
                                      /\ d.to = calls[1].log[k].target_id
                                      /\ d.label = RelationshipOf(1, k)}) = 1

\* The positions of call c's log that hold an upsert of this kind.
UpsertsOfKind(c, kind) ==
    {k \in 1..Len(calls[c].log) :
        calls[c].log[k].op = "upsert" /\ calls[c].log[k].kind = kind}

\* C22: in the sequence of upserts one ingestion call issues, the paper node
\* comes first, the 'contains' edge to an entity node comes after that node,
\* and a relation edge comes after the node of every entity of the document.
C22_UpsertOrder ==
    LET log == calls[1].log
        filtered == calls[1].filtered
    IN  /\ \A k \in UpsertsOfKind(1, "entity") :
              \E j \in UpsertsOfKind(1, "paper") : j < k
        /\ \A k \in UpsertsOfKind(1, "contains") :
              /\ \E j \in UpsertsOfKind(1, "entity") :
                    j < k /\ log[j].id = log[k].target_id
              /\ \E j \in UpsertsOfKind(1, "paper") :
                    j < k /\ log[j].id = log[k].source_id
        /\ \A k \in UpsertsOfKind(1, "relation") :
              Cardinality({j \in UpsertsOfKind(1, "entity") : j < k}) =
                  Len(filtered.public_entities) + Len(filtered.private_entities)

C22_Witness ==
    /\ calls[1].pc = "done"
    /\ calls[1].result.status = "completed"
    /\ UpsertsOfKind(1, "relation") # {}
    /\ \E j, k \in UpsertsOfKind(1, "entity") :
          calls[1].log[j].private /\ ~calls[1].log[k].private
    /\ Cardinality(UpsertsOfKind(1, "contains")) = 3

\* C24: a finished search returns no document that was ingested with
\* is_public false by a user other than the one who searches.
C24_PrivateVectorsStayPrivate ==
    search.pc = "done" =>
        \A k \in 1..Len(search.merged) :
            search.merged[k].is_public \/ search.merged[k].user_id = search.user_id

\* C26: once a call has returned status 'failed', no vector, node or edge of
\* its document is in the stores.
C26_FailedLeavesNothing ==
    \A c \in Calls :
        (calls[c].pc = "done" /\ calls[c].result.status = "failed") =>
            /\ \A v \in vectors : v.metadata.doc_id # calls[c].result.doc_id
            /\ \A n \in nodes : n.id # calls[c].paper_node_id
            /\ edges = {}

\* The stored node of this id.
NodeOfId(id) == CHOOSE n \in nodes : n.id = id

\* User user_id may see the node: it is public or their own.
VisibleTo(node, user_id) == node.is_public \/ node.owner_id = user_id

\* C23: no triple rendered for a query of user u has an endpoint that is a
\* node marked is_public false and owned by another user.
C23_ContextHidesForeignPrivate ==
    (retrieval.pc = "done" /\ query.pc # "idle") =>
        \A k \in 1..Len(retrieval.unique_edges) :
            /\ VisibleTo(NodeOfId(retrieval.unique_edges[k].from), query.user_id)
            /\ VisibleTo(NodeOfId(retrieval.unique_edges[k].to), query.user_id)

\* C25: the answer of a response that is not the error response was
\* generated for the scope of the query it is returned to.
C25_ResponseOfOwnScope ==
    (query.pc = "done" /\ ~IsFallback(query.response)) =>
        \E query_text \in QueryTexts :
            query.response.answer = Answer(query_text, query.scope)

\* The words of a query text: every entity an extractor can take from the
\* text is among them.
Words(query_text) ==
    IF query_text = "Who is Watson" THEN {"Who", "is", "Watson"}
    ELSE IF query_text = "What is DNA" THEN {"What", "is", "DNA"}
    ELSE {}

\* C27: every seed node of a query has an original_text that matches, up to
\* case, a word of the query's text.
C27_SeedsFromQueryText ==
    query.pc # "idle" =>
        \A k \in 1..Len(retrieval.seeds) :
            \E word \in Words(query.query_text) :
                Lower(word) = Lower(retrieval.seeds[k].original_text)

\* A step in which a query with the user and text of the query that just
\* failed reads the cache.
RetryAfterFailure ==
    /\ query.pc = "done"
    /\ IsFallback(query.response)
    /\ query'.served = query.served + 1
    /\ query'.user_id = query.user_id
    /\ query'.query_text = query.query_text
    /\ query'.log[1].ok

\* C30: no cache entry holds the fixed error response, the error response is
\* returned only by a query one of whose own calls failed, and the query that
\* repeats a failed one runs the pipeline or is served an entry that is not
\* the error.
C30_ErrorNeverCached ==
    /\ [](\A e \in cache : ~IsFallback(Deserialize(e.value)))
    /\ []((query.pc = "done" /\ IsFallback(query.response)) => FailedCalls # {})
    /\ [][RetryAfterFailure =>
            \/ query'.pc = "embed"
            \/ query'.pc = "done" /\ ~IsFallback(query'.response)]_vars

C30_Witness ==
    /\ query.pc = "done"
    /\ query.served = 2
    /\ IsFallback(query.response)
    /\ \E e \in cache : e.key = cache_key(query.user_id, query.query_text)

\* C28: whatever happened during the traversals, the loop visits every seed,
\* and what the traversals that answered returned is what is rendered.
C28_TraversalFailureSkipsSeed ==
    (retrieval.pc = "done" /\ retrieval.seeds # <<>>) =>
        /\ Len(retrieval.traversed) = Len(retrieval.seeds)
        /\ (\E t \in 1..Len(retrieval.traversed) : retrieval.traversed[t].edges # <<>>) =>
              retrieval.graph_context # ErrorRetrieving \/ retrieval.i > Len(retrieval.seeds)

\* C29: seed resolution with limit=1 finds at most one node per seed entity,
\* and a query starts at most three traversals.
C29_OneSeedPerEntity ==
    /\ Len(retrieval.seeds) <= Len(entities_to_search)
    /\ Len(retrieval.traversed) <= 3

====
